---- MODULE Spec2Model ----
(***************************************************************************)
(* The storage engine of the notes application                             *)
(* (apps/desktop/src-tauri/src/database.rs): one SQLite connection behind  *)
(* a mutex, and the commands that read and write it.                       *)
(*                                                                         *)
(* Text is modelled as Rust and SQLite hold it: a string is a sequence of  *)
(* Unicode scalar values (naturals), so emptiness, equality with a         *)
(* literal, the SQL LENGTH, UTF-8 byte offsets and tokenisation are        *)
(* computed on the characters.  Option<T> / a nullable column is <<>>      *)
(* (None, NULL) or <<x>> (Some(x)).                                        *)
(*                                                                         *)
(* A table is the set of its rows (records); the two association tables   *)
(* and the full-text table are bags of rows (row -> number of copies), so  *)
(* that a duplicated row is a state the model can be in and the            *)
(* constraints that exclude it are part of the statements.                 *)
(*                                                                         *)
(* Every command is one action: the code holds the mutex from its first    *)
(* line to its return (init_database takes it only at its last line, to    *)
(* store the connection).  Statements run in autocommit mode, one after    *)
(* the other, with no enclosing transaction: a failing statement ends the  *)
(* command and the earlier statements' effects stay.  Failures of the      *)
(* file system (disk full, I/O error) are not modelled.                    *)
(***************************************************************************)
EXTENDS Integers, Sequences, FiniteSets, TLC

VARIABLES
    conn,       \* the Option<Connection> inside the mutex: "None" or "Some"
    poisoned,   \* the mutex is poisoned: a command panicked while holding it
    db,         \* the database file: a record of tables
    last,       \* the last command: [op, arg, res]
    run         \* the commands in flight on the threads of SpecLock, and
                \* the thread that holds the mutex

vars == <<conn, poisoned, db, last, run>>

----------------------------------------------------------------------------
(* Strings *)

None == <<>>
Some(x) == <<x>>

Rep(n, c) == [i \in 1..n |-> c]

\* The number of bytes of one scalar value in UTF-8.
Utf8Len(c) ==
    IF c < 128 THEN 1 ELSE IF c < 2048 THEN 2 ELSE IF c < 65536 THEN 3 ELSE 4

\* str::len: the length in bytes.
ByteLen(s) ==
    LET RECURSIVE Walk(_, _)
        Walk(k, bytes) ==
            IF k > Len(s) THEN bytes ELSE Walk(k + 1, bytes + Utf8Len(s[k]))
    IN  Walk(1, 0)

\* str::is_char_boundary: byte offset n is 0, the length, or the offset at
\* which a character starts.
IsCharBoundary(s, n) ==
    LET RECURSIVE Walk(_, _)
        Walk(k, bytes) ==
            IF bytes = n THEN TRUE
            ELSE IF bytes > n \/ k > Len(s) THEN FALSE
            ELSE Walk(k + 1, bytes + Utf8Len(s[k]))
    IN  Walk(1, 0)

\* &s[..n] panics unless n is a character boundary of s (n <= len included).
SliceToPanics(s, n) == ~IsCharBoundary(s, n)

\* SQLite's LENGTH of a text value: the characters before the first NUL.
LENGTH(s) ==
    LET nuls == {i \in 1..Len(s) : s[i] = 0}
    IN  IF nuls = {} THEN Len(s)
        ELSE (CHOOSE i \in nuls : \A j \in nuls : i <= j) - 1

\* `flag as i32` and `row.get::<_, i32>(..)? != 0`.
BoolToInt(b) == IF b THEN 1 ELSE 0
IntToBool(i) == i # 0

----------------------------------------------------------------------------
(* Bags of rows *)

EmptyBag == <<>>
BagCount(b, x) == IF x \in DOMAIN b THEN b[x] ELSE 0
BagInsert(b, x) == [y \in DOMAIN b \cup {x} |-> BagCount(b, y) + (IF y = x THEN 1 ELSE 0)]
BagKeep(b, S) == [y \in DOMAIN b \cap S |-> b[y]]
BagSize(b) ==
    LET RECURSIVE Sum(_)
        Sum(S) == IF S = {} THEN 0
                  ELSE LET x == CHOOSE x \in S : TRUE IN b[x] + Sum(S \ {x})
    IN  Sum(DOMAIN b)

----------------------------------------------------------------------------
(* Results of a command: Result<T, String>, or a panic *)

Ok(v) == [kind |-> "Ok", err |-> "", value |-> v]
Err(e) == [kind |-> "Err", err |-> e, value |-> <<>>]
Panic == [kind |-> "Panic", err |-> "", value |-> <<>>]

ErrNotInitialized == Err("Database not initialized")
ErrBlocked == Err("BLOCKED: overwrite with pure boot state")
ErrConstraint == Err("constraint failed")
ErrNoRows == Err("Query returned no rows")
ErrFtsSyntax == Err("fts5: syntax error")
ErrOpen == Err("unable to open database file")

----------------------------------------------------------------------------
(* Commands *)

\* What a command leaves: its result, the database, the mutex.
Outcome(res, d, p) == [res |-> res, db |-> d, poisoned |-> p]

\* The head of every command but init_database: the poisoned mutex panics at
\* lock().unwrap(), the absent connection is the "not initialized" error.
Entry(res) ==
    IF poisoned THEN Panic
    ELSE IF conn = "None" THEN ErrNotInitialized
    ELSE res

\* A command of one statement: the head, then the statement's outcome.
OneStatement(res, d) ==
    IF poisoned \/ conn = "None" THEN Outcome(Entry(res), db, poisoned)
    ELSE Outcome(res, d, FALSE)

\* The record of a command in `last`.
Call(op, arg, res) == [op |-> op, arg |-> arg, res |-> res]

----------------------------------------------------------------------------
(* The schema: init_database's CREATE TABLE statements *)

\* The tables, the virtual table and the triggers that init_database
\* creates, in the order of its statements (the indexes hold no data and
\* are left out).
SchemaObjects ==
    <<"notes", "folders", "tags", "note_tags", "folder_tags", "settings",
      "notes_fts", "notes_fts_insert", "notes_fts_update", "notes_fts_delete">>

\* A database file that Connection::open has just created: nothing in it.
NewFile ==
    [ objects     |-> {},
      notes       |-> {},
      folders     |-> {},
      tags        |-> {},
      note_tags   |-> EmptyBag,
      folder_tags |-> EmptyBag,
      settings    |-> {},
      notes_fts   |-> EmptyBag ]

\* A wrong schema statement: CREATE without IF NOT EXISTS after a DROP.
CreateAfterDrop(d, name) ==
    LET none == IF name \in {"note_tags", "folder_tags", "notes_fts"} THEN EmptyBag ELSE {}
    IN  IF name \in DOMAIN d
        THEN [d EXCEPT !.objects = @ \cup {name}, ![name] = none]
        ELSE [d EXCEPT !.objects = @ \cup {name}]

\* CREATE TABLE / VIRTUAL TABLE / TRIGGER IF NOT EXISTS: an object that is
\* there stays as it is, with its rows; a new table has none.
CreateIfNotExists(d, name) ==
    IF name \in d.objects THEN d
    ELSE [d EXCEPT !.objects = @ \cup {name}]

\* The schema statements of init_database, in order.
RECURSIVE CreateAll(_, _)
CreateAll(d, names) ==
    IF names = <<>> THEN d
    ELSE CreateAll(CreateIfNotExists(d, Head(names)), Tail(names))

\* The tables of a file on which init_database has run and nothing else.
EmptyDb == CreateAll(NewFile, SchemaObjects)

\* The row of table `notes` that save_note binds for a Note (?1 .. ?13).
NoteRow(note) ==
    [ id                  |-> note.id,
      title               |-> note.title,
      description         |-> note.description,
      description_visible |-> BoolToInt(note.description_visible),
      emoji               |-> note.emoji,
      content             |-> note.content,
      tags_visible        |-> BoolToInt(note.tags_visible),
      is_favorite         |-> BoolToInt(note.is_favorite),
      folder_id           |-> note.folder_id,
      daily_note_date     |-> note.daily_note_date,
      created_at          |-> note.created_at,
      updated_at          |-> note.updated_at,
      deleted_at          |-> note.deleted_at ]

\* The Note that load_note, load_all_notes and search_notes build from a row
\* and the tag names read for it (a bag: the order of the rows is SQLite's).
RowToNote(row, tagBag) ==
    [ id                  |-> row.id,
      title               |-> row.title,
      description         |-> row.description,
      description_visible |-> IntToBool(row.description_visible),
      emoji               |-> row.emoji,
      content             |-> row.content,
      tags                |-> tagBag,
      tags_visible        |-> IntToBool(row.tags_visible),
      is_favorite         |-> IntToBool(row.is_favorite),
      folder_id           |-> row.folder_id,
      daily_note_date     |-> row.daily_note_date,
      created_at          |-> row.created_at,
      updated_at          |-> row.updated_at,
      deleted_at          |-> row.deleted_at ]

\* The row of table `folders` that save_folder binds for a Folder.
FolderRow(folder) ==
    [ id                  |-> folder.id,
      name                |-> folder.name,
      parent_id           |-> folder.parent_id,
      description         |-> folder.description,
      description_visible |-> BoolToInt(folder.description_visible),
      color               |-> folder.color,
      emoji               |-> folder.emoji,
      tags_visible        |-> BoolToInt(folder.tags_visible),
      is_favorite         |-> BoolToInt(folder.is_favorite),
      is_expanded         |-> BoolToInt(folder.is_expanded),
      created_at          |-> folder.created_at,
      updated_at          |-> folder.updated_at,
      deleted_at          |-> folder.deleted_at ]

\* The tag row that save_note and save_folder insert for a name they meet:
\* VALUES (?1, '', 1, 0, NULL, ?2, ?2), deleted_at left NULL.
ImplicitTagRow(name, now) ==
    [ name                |-> name,
      description         |-> <<>>,
      description_visible |-> 1,
      is_favorite         |-> 0,
      color               |-> None,
      created_at          |-> now,
      updated_at          |-> now,
      deleted_at          |-> None ]

NoteIdsOf(d) == {r.id : r \in d.notes}
FolderIdsOf(d) == {r.id : r \in d.folders}
TagNamesOf(d) == {r.name : r \in d.tags}

----------------------------------------------------------------------------
(* The triggers that keep notes_fts in step with notes *)

FtsEntry(id, title, content) == [note_id |-> id, title |-> title, content |-> content]

\* notes_fts_insert: AFTER INSERT ON notes, one entry for the new row.
notes_fts_insert(d, new) ==
    [d EXCEPT !.notes_fts = BagInsert(@, FtsEntry(new.id, new.title, new.content))]

\* A schema without the update trigger.
NoFtsUpdate(d, old, new) ==
    d

\* notes_fts_update: AFTER UPDATE ON notes, every entry of old.id takes the
\* new title and content.
notes_fts_update(d, old, new) ==
    LET hit  == {e \in DOMAIN d.notes_fts : e.note_id = old.id}
        rest == BagKeep(d.notes_fts, DOMAIN d.notes_fts \ hit)
        e2   == FtsEntry(old.id, new.title, new.content)
        n    == BagSize(BagKeep(d.notes_fts, hit))
    IN  IF hit = {} THEN d
        ELSE [d EXCEPT !.notes_fts =
                 [y \in DOMAIN rest \cup {e2} |->
                     BagCount(rest, y) + (IF y = e2 THEN n ELSE 0)]]

\* notes_fts_delete: AFTER DELETE ON notes, the entries of old.id go.
notes_fts_delete(d, old) ==
    [d EXCEPT !.notes_fts =
        BagKeep(@, {e \in DOMAIN @ : e.note_id # old.id})]

----------------------------------------------------------------------------
(* The statements of save_note *)

\* A faulty DO UPDATE SET that leaves the emoji column out.
UpdatedNoteRowKeepingEmoji(r, new) ==
    [new EXCEPT !.id = r.id, !.created_at = r.created_at, !.emoji = r.emoji]

\* A faulty upsert that replaces the stored row (INSERT OR REPLACE).
UpdatedNoteRowReplacing(r, new) ==
    new

\* ON CONFLICT(id) DO UPDATE SET title = excluded.title, ...: every column
\* but id and created_at of the stored row r is set from the incoming row.
UpdatedNoteRow(r, new) ==
    [r EXCEPT !.title               = new.title,
              !.description         = new.description,
              !.description_visible = new.description_visible,
              !.emoji               = new.emoji,
              !.content             = new.content,
              !.tags_visible        = new.tags_visible,
              !.is_favorite         = new.is_favorite,
              !.folder_id           = new.folder_id,
              !.daily_note_date     = new.daily_note_date,
              !.updated_at          = new.updated_at,
              !.deleted_at          = new.deleted_at]

\* INSERT INTO notes (...) VALUES (...) ON CONFLICT(id) DO UPDATE SET ...:
\* a new row when no row has the id (the insert trigger fires), else the
\* stored row is updated (the update trigger fires).  The table has no
\* foreign key.
UpsertNote(d, note) ==
    LET new == NoteRow(note)
        old == {r \in d.notes : r.id = new.id}
    IN  IF old = {}
        THEN notes_fts_insert([d EXCEPT !.notes = @ \cup {new}], new)
        ELSE LET r == CHOOSE r \in old : TRUE
             IN  notes_fts_update(
                     [d EXCEPT !.notes = (@ \ old) \cup {UpdatedNoteRow(r, new)}],
                     r, UpdatedNoteRow(r, new))

\* A faulty insert that replaces the stored row of the name.
EnsureTagReplacing(d, name, now) ==
    [d EXCEPT !.tags = {r \in @ : r.name # name} \cup {ImplicitTagRow(name, now)}]

\* INSERT INTO tags (...) VALUES (?1, '', 1, 0, NULL, ?2, ?2)
\* ON CONFLICT(name) DO NOTHING.
EnsureTag(d, name, now) ==
    IF name \in TagNamesOf(d) THEN d
    ELSE [d EXCEPT !.tags = @ \cup {ImplicitTagRow(name, now)}]

\* for tag in &tags { EnsureTag }.
RECURSIVE EnsureTags(_, _, _)
EnsureTags(d, names, now) ==
    IF names = <<>> THEN d
    ELSE EnsureTags(EnsureTag(d, Head(names), now), Tail(names), now)

\* A faulty save_note that does not clear the stored associations.
KeepNoteTags(d, id) ==
    d

\* DELETE FROM note_tags WHERE note_id = ?1.
DeleteNoteTags(d, id) ==
    [d EXCEPT !.note_tags = BagKeep(@, {p \in DOMAIN @ : p.note_id # id})]

\* A note_tags table without its PRIMARY KEY and FOREIGN KEY constraints.
InsertNoteTagUnchecked(d, id, name) ==
    [ok |-> TRUE,
     db |-> [d EXCEPT !.note_tags = BagInsert(@, [note_id |-> id, tag_name |-> name])]]

\* INSERT INTO note_tags (note_id, tag_name) VALUES (?1, ?2): refused when
\* the pair is stored (PRIMARY KEY) or when the note or the tag is not
\* (FOREIGN KEY, foreign_keys = ON).
InsertNoteTag(d, id, name) ==
    LET p == [note_id |-> id, tag_name |-> name]
    IN  IF \/ p \in DOMAIN d.note_tags
           \/ id \notin NoteIdsOf(d)
           \/ name \notin TagNamesOf(d)
        THEN [ok |-> FALSE, db |-> d]
        ELSE [ok |-> TRUE, db |-> [d EXCEPT !.note_tags = BagInsert(@, p)]]

\* for tag in &note.tags { InsertNoteTag ...? }: the first refused insert
\* ends the loop, the pairs inserted before it stay.
RECURSIVE InsertNoteTags(_, _, _)
InsertNoteTags(d, id, names) ==
    IF names = <<>> THEN [ok |-> TRUE, db |-> d]
    ELSE LET r == InsertNoteTag(d, id, Head(names))
         IN  IF r.ok THEN InsertNoteTags(r.db, id, Tail(names)) ELSE r

----------------------------------------------------------------------------
(* save_note *)

\* The debug println! at the head of save_note slices the id at byte 20 and,
\* when the title has more than 30 bytes, the title at byte 30.
SaveNotePrintPanics(note) ==
    \/ SliceToPanics(note.id, 20)
    \/ ByteLen(note.title) > 30 /\ SliceToPanics(note.title, 30)

\* is_pure_boot_state: the content is "", the two characters "" or {}.
IsPureBootState(content) ==
    \/ Len(content) = 0
    \/ content = <<34, 34>>
    \/ content = <<123, 125>>

\* SELECT LENGTH(content) FROM notes WHERE id = ?1, with .ok(): None when no
\* row has the id.
ExistingContentLen(d, id) ==
    LET rows == {r \in d.notes : r.id = id}
    IN  IF rows = {} THEN None
        ELSE Some(LENGTH((CHOOSE r \in rows : TRUE).content))

\* The guard: a pure boot state over stored content of more than 200
\* characters.
GuardBlocks(d, note) ==
    /\ IsPureBootState(note.content)
    /\ ExistingContentLen(d, note.id) # None
    /\ ExistingContentLen(d, note.id)[1] > 200

\* A save_note whose statements run in a transaction that a failure
\* rolls back.
SaveNoteStatementsRolledBack(d, note) ==
    LET d1 == UpsertNote(d, note)
        d2 == EnsureTags(d1, note.tags, note.updated_at)
        d3 == DeleteNoteTags(d2, note.id)
        r4 == InsertNoteTags(d3, note.id, note.tags)
    IN  IF r4.ok THEN [res |-> Ok(note.id), db |-> r4.db]
        ELSE [res |-> ErrConstraint, db |-> d]

\* The statements of save_note after the guard, in order.
SaveNoteStatements(d, note) ==
    LET d1 == UpsertNote(d, note)
        d2 == EnsureTags(d1, note.tags, note.updated_at)
        d3 == DeleteNoteTags(d2, note.id)
        r4 == InsertNoteTags(d3, note.id, note.tags)
    IN  [res |-> IF r4.ok THEN Ok(note.id) ELSE ErrConstraint, db |-> r4.db]

\* A faulty save_note that prints before it looks for the connection.
SaveNoteOutcomePrintFirst(note) ==
    IF poisoned THEN Outcome(Panic, db, TRUE)
    ELSE IF SaveNotePrintPanics(note) THEN Outcome(Panic, db, TRUE)
    ELSE IF conn = "None" THEN Outcome(ErrNotInitialized, db, FALSE)
    ELSE IF GuardBlocks(db, note) THEN Outcome(ErrBlocked, db, FALSE)
    ELSE LET s == SaveNoteStatements(db, note)
         IN  Outcome(s.res, s.db, FALSE)

SaveNoteOutcome(note) ==
    IF poisoned THEN Outcome(Panic, db, TRUE)
    ELSE IF conn = "None" THEN Outcome(ErrNotInitialized, db, FALSE)
    ELSE IF SaveNotePrintPanics(note) THEN Outcome(Panic, db, TRUE)
    ELSE IF GuardBlocks(db, note) THEN Outcome(ErrBlocked, db, FALSE)
    ELSE LET s == SaveNoteStatements(db, note)
         IN  Outcome(s.res, s.db, FALSE)

save_note(note) ==
    LET o == SaveNoteOutcome(note)
    IN  /\ db' = o.db
        /\ poisoned' = o.poisoned
        /\ last' = Call("save_note", note, o.res)
        /\ UNCHANGED <<conn, run>>

----------------------------------------------------------------------------
(* load_note, load_all_notes *)

\* SELECT tag_name FROM note_tags WHERE note_id = ?1, collected: the bag of
\* the names read.
TagsOfNote(d, id) ==
    LET names == {p.tag_name : p \in {q \in DOMAIN d.note_tags : q.note_id = id}}
    IN  [t \in names |-> d.note_tags[[note_id |-> id, tag_name |-> t]]]

\* A faulty load that does not see soft-deleted notes.
LoadNoteResultLive(d, id) ==
    LET rows == {r \in d.notes : r.id = id /\ r.deleted_at = None}
    IN  IF rows = {} THEN ErrNoRows
        ELSE Ok(RowToNote(CHOOSE r \in rows : TRUE, TagsOfNote(d, id)))

\* query_row(SELECT ... FROM notes WHERE id = ?1), an error when no row has
\* the id; then the tag names of the id are read into the note.
LoadNoteResult(d, id) ==
    LET rows == {r \in d.notes : r.id = id}
    IN  IF rows = {} THEN ErrNoRows
        ELSE Ok(RowToNote(CHOOSE r \in rows : TRUE, TagsOfNote(d, id)))

load_note(note_id) ==
    /\ last' = Call("load_note", note_id, Entry(LoadNoteResult(db, note_id)))
    /\ UNCHANGED <<conn, poisoned, db, run>>

\* Text columns compare as their bytes (BINARY collation), which for UTF-8 is
\* the order of the scalar values, a proper prefix first.
StrLess(a, b) ==
    \E i \in 1..(Len(b)) :
        /\ \A j \in 1..(i - 1) : j <= Len(a) /\ a[j] = b[j]
        /\ \/ i = Len(a) + 1
           \/ i <= Len(a) /\ a[i] < b[i]

\* The orders in which SELECT ... FROM notes ORDER BY updated_at DESC may
\* return the rows: any order that never puts an older row first.
NotesByUpdatedDesc(d) ==
    LET n == Cardinality(d.notes)
    IN  {s \in [1..n -> d.notes] :
            /\ \A i, j \in 1..n : i # j => s[i] # s[j]
            /\ \A i, j \in 1..n : i < j => ~StrLess(s[i].updated_at, s[j].updated_at)}

\* A faulty load that leaves out the soft-deleted notes.
LoadAllNotesLive(d, s) ==
    LET live == SelectSeq(s, LAMBDA r : r.deleted_at = None)
    IN  [i \in DOMAIN live |-> RowToNote(live[i], TagsOfNote(d, live[i].id))]

\* The notes of one such order, each with the tags grouped under its id.
LoadAllNotesOf(d, s) == [i \in DOMAIN s |-> RowToNote(s[i], TagsOfNote(d, s[i].id))]

load_all_notes ==
    \E s \in NotesByUpdatedDesc(db) :
        /\ last' = Call("load_all_notes", <<>>, Entry(Ok(LoadAllNotesOf(db, s))))
        /\ UNCHANGED <<conn, poisoned, db, run>>

----------------------------------------------------------------------------
(* search_notes *)

\* unicode61: a token is a maximal run of letters and digits (every scalar
\* value above ASCII is taken as a letter), folded to lower case.
IsTokenChar(c) ==
    \/ c >= 48 /\ c <= 57
    \/ c >= 65 /\ c <= 90
    \/ c >= 97 /\ c <= 122
    \/ c >= 128

Fold(c) == IF c >= 65 /\ c <= 90 THEN c + 32 ELSE c

Tokens(s) ==
    LET IsTok(i) == i >= 1 /\ i <= Len(s) /\ IsTokenChar(s[i])
        starts == {i \in 1..Len(s) : IsTok(i) /\ ~IsTok(i - 1)}
        ends == {j \in 1..Len(s) : IsTok(j) /\ ~IsTok(j + 1)}
        EndOf(i) == CHOOSE j \in ends : j >= i /\ \A k \in ends : k >= i => j <= k
    IN  {[k \in 1..(EndOf(i) - i + 1) |-> Fold(s[i + k - 1])] : i \in starts}

\* The queries modelled are single barewords (one token) and the empty
\* string, which FTS5 refuses.
IsBareword(q) == Len(q) > 0 /\ \A i \in 1..Len(q) : IsTokenChar(q[i])

\* notes_fts MATCH ?1 for a bareword: one of the indexed columns (title,
\* content; note_id is UNINDEXED) holds the token.
Matches(e, q) == Tokens(q) \subseteq (Tokens(e.title) \cup Tokens(e.content))

\* A faulty query without the deleted_at IS NULL condition.
SearchJoinWithDeleted(d, q) ==
    LET hit == {e \in DOMAIN d.notes_fts : Matches(e, q)}
        RowsOf(e) == {r \in d.notes : r.id = e.note_id}
    IN  UNION {RowsOf(e) \X {e} \X (1..d.notes_fts[e]) : e \in hit}

\* The rows of notes JOIN notes_fts ON notes.id = notes_fts.note_id
\* WHERE notes_fts MATCH ?1 AND notes.deleted_at IS NULL: one per note row
\* and copy of a matching entry.
SearchJoin(d, q) ==
    LET hit == {e \in DOMAIN d.notes_fts : Matches(e, q)}
        RowsOf(e) == {r \in d.notes : r.id = e.note_id /\ r.deleted_at = None}
    IN  UNION {RowsOf(e) \X {e} \X (1..d.notes_fts[e]) : e \in hit}

\* LIMIT 50.
SearchLimit == 50

\* The subsets of S that leave out k of its elements.
RECURSIVE Without(_, _)
Without(S, k) ==
    IF k = 0 THEN {S}
    ELSE UNION {Without(S \ {x}, k - 1) : x \in S}

\* ORDER BY rank LIMIT 50: all the joined rows when there are at most 50,
\* else the 50 that rank highest, which the model leaves open.
SearchLimited(J) ==
    IF Cardinality(J) <= SearchLimit THEN {J}
    ELSE Without(J, Cardinality(J) - SearchLimit)

\* The notes returned for the rows K: the tags grouped by id are moved
\* (HashMap::remove) into the first note of each id, any later note of that
\* id has none.
SearchNotesOf(d, K) ==
    LET Copies(id) == Cardinality({k \in K : k[1].id = id})
        tagged == {RowToNote(k[1], TagsOfNote(d, k[1].id)) : k \in K}
        bare == {RowToNote(k[1], EmptyBag) : k \in {j \in K : Copies(j[1].id) > 1}}
    IN  [n \in tagged \cup bare |->
            IF TagsOfNote(d, n.id) = EmptyBag THEN Copies(n.id)
            ELSE IF n.tags = EmptyBag THEN Copies(n.id) - 1
            ELSE 1]

\* The results search_notes may return for a query: bags of notes.
SearchResults(d, q) ==
    IF ~IsBareword(q) THEN {ErrFtsSyntax}
    ELSE {Ok(SearchNotesOf(d, K)) : K \in SearchLimited(SearchJoin(d, q))}

search_notes(query) ==
    \E res \in SearchResults(db, query) :
        /\ last' = Call("search_notes", query, Entry(res))
        /\ UNCHANGED <<conn, poisoned, db, run>>

----------------------------------------------------------------------------
(* delete_note_permanently, delete_tag *)

\* A connection without PRAGMA foreign_keys = ON: no cascade to note_tags.
DeleteNoteNoCascade(d, id) ==
    LET old == {r \in d.notes : r.id = id}
    IN  IF old = {} THEN d
        ELSE notes_fts_delete([d EXCEPT !.notes = @ \ old], CHOOSE r \in old : TRUE)

\* DELETE FROM notes WHERE id = ?1: the rows go, the delete trigger fires
\* for each, and note_tags rows of the id go with them (ON DELETE CASCADE).
DeleteNote(d, id) ==
    LET old == {r \in d.notes : r.id = id}
        d1  == [d EXCEPT !.notes = @ \ old,
                         !.note_tags = BagKeep(@, {p \in DOMAIN @ : p.note_id # id})]
    IN  IF old = {} THEN d
        ELSE notes_fts_delete(d1, CHOOSE r \in old : TRUE)

delete_note_permanently(note_id) ==
    LET o == OneStatement(Ok(note_id), DeleteNote(db, note_id))
    IN  /\ db' = o.db
        /\ last' = Call("delete_note_permanently", note_id, o.res)
        /\ UNCHANGED <<conn, poisoned, run>>

\* A folder_tags table whose tag_name has no ON DELETE CASCADE action taken.
DeleteTagNoFolderCascade(d, name) ==
    [d EXCEPT !.tags = {t \in @ : t.name # name},
              !.note_tags = BagKeep(@, {p \in DOMAIN @ : p.tag_name # name})]

\* DELETE FROM tags WHERE name = ?1: the row goes, and the rows of both
\* association tables that name the tag go with it (ON DELETE CASCADE).
DeleteTag(d, name) ==
    [d EXCEPT !.tags = {t \in @ : t.name # name},
              !.note_tags = BagKeep(@, {p \in DOMAIN @ : p.tag_name # name}),
              !.folder_tags = BagKeep(@, {p \in DOMAIN @ : p.tag_name # name})]

\* A faulty delete_tag that reports an error when no row was deleted.
delete_tag_strict(tag_name) ==
    LET res == IF tag_name \in TagNamesOf(db) THEN Ok(tag_name) ELSE ErrNoRows
        o == OneStatement(res, DeleteTag(db, tag_name))
    IN  /\ db' = o.db
        /\ last' = Call("delete_tag", tag_name, o.res)
        /\ UNCHANGED <<conn, poisoned, run>>

delete_tag(tag_name) ==
    LET o == OneStatement(Ok(tag_name), DeleteTag(db, tag_name))
    IN  /\ db' = o.db
        /\ last' = Call("delete_tag", tag_name, o.res)
        /\ UNCHANGED <<conn, poisoned, run>>

----------------------------------------------------------------------------
(* save_folder, delete_folder_permanently *)

\* A connection without PRAGMA foreign_keys = ON: no parent is checked.
FolderParentsUnchecked(rows) ==
    TRUE

\* FOREIGN KEY (parent_id) REFERENCES folders(id), checked when the statement
\* ends: every parent named is a stored folder (a folder may name itself).
FolderParentsStored(rows) ==
    \A r \in rows : r.parent_id # None => r.parent_id[1] \in {x.id : x \in rows}

\* A faulty upsert whose DO UPDATE SET list lacks is_expanded.
UpsertFolderKeepingExpanded(d, folder) ==
    LET new == FolderRow(folder)
        old == {r \in d.folders : r.id = new.id}
        Updated(r) == [new EXCEPT !.created_at = r.created_at, !.is_expanded = r.is_expanded]
        rows == IF old = {} THEN d.folders \cup {new}
                ELSE (d.folders \ old) \cup {Updated(r) : r \in old}
    IN  IF FolderParentsStored(rows)
        THEN [ok |-> TRUE, db |-> [d EXCEPT !.folders = rows]]
        ELSE [ok |-> FALSE, db |-> d]

\* INSERT INTO folders (...) ON CONFLICT(id) DO UPDATE SET ...: as for
\* notes, with the parent checked.
UpsertFolder(d, folder) ==
    LET new == FolderRow(folder)
        old == {r \in d.folders : r.id = new.id}
        Updated(r) ==
            [r EXCEPT !.name                = new.name,
                      !.parent_id           = new.parent_id,
                      !.description         = new.description,
                      !.description_visible = new.description_visible,
                      !.color               = new.color,
                      !.emoji               = new.emoji,
                      !.tags_visible        = new.tags_visible,
                      !.is_favorite         = new.is_favorite,
                      !.is_expanded         = new.is_expanded,
                      !.updated_at          = new.updated_at,
                      !.deleted_at          = new.deleted_at]
        rows == IF old = {} THEN d.folders \cup {new}
                ELSE (d.folders \ old) \cup {Updated(r) : r \in old}
    IN  IF FolderParentsStored(rows)
        THEN [ok |-> TRUE, db |-> [d EXCEPT !.folders = rows]]
        ELSE [ok |-> FALSE, db |-> d]

\* DELETE FROM folder_tags WHERE folder_id = ?1.
DeleteFolderTags(d, id) ==
    [d EXCEPT !.folder_tags = BagKeep(@, {p \in DOMAIN @ : p.folder_id # id})]

\* INSERT INTO folder_tags (folder_id, tag_name) VALUES (?1, ?2).
InsertFolderTag(d, id, name) ==
    LET p == [folder_id |-> id, tag_name |-> name]
    IN  IF \/ p \in DOMAIN d.folder_tags
           \/ id \notin FolderIdsOf(d)
           \/ name \notin TagNamesOf(d)
        THEN [ok |-> FALSE, db |-> d]
        ELSE [ok |-> TRUE, db |-> [d EXCEPT !.folder_tags = BagInsert(@, p)]]

RECURSIVE InsertFolderTags(_, _, _)
InsertFolderTags(d, id, names) ==
    IF names = <<>> THEN [ok |-> TRUE, db |-> d]
    ELSE LET r == InsertFolderTag(d, id, Head(names))
         IN  IF r.ok THEN InsertFolderTags(r.db, id, Tail(names)) ELSE r

\* The println! of save_folder slices the id at byte min(20, len).
SaveFolderPrintPanics(folder) ==
    SliceToPanics(folder.id, IF ByteLen(folder.id) < 20 THEN ByteLen(folder.id) ELSE 20)

SaveFolderStatements(d, folder) ==
    LET r1 == UpsertFolder(d, folder)
        d2 == EnsureTags(r1.db, folder.tags, folder.updated_at)
        d3 == DeleteFolderTags(d2, folder.id)
        r4 == InsertFolderTags(d3, folder.id, folder.tags)
    IN  IF ~r1.ok THEN [res |-> ErrConstraint, db |-> d]
        ELSE [res |-> IF r4.ok THEN Ok(folder.id) ELSE ErrConstraint, db |-> r4.db]

SaveFolderOutcome(folder) ==
    IF poisoned THEN Outcome(Panic, db, TRUE)
    ELSE IF conn = "None" THEN Outcome(ErrNotInitialized, db, FALSE)
    ELSE IF SaveFolderPrintPanics(folder) THEN Outcome(Panic, db, TRUE)
    ELSE LET s == SaveFolderStatements(db, folder)
         IN  Outcome(s.res, s.db, FALSE)

save_folder(folder) ==
    LET o == SaveFolderOutcome(folder)
    IN  /\ db' = o.db
        /\ poisoned' = o.poisoned
        /\ last' = Call("save_folder", folder, o.res)
        /\ UNCHANGED <<conn, run>>

\* DELETE FROM folders WHERE id = ?1: refused while another folder names
\* this one as its parent (the foreign key has no ON DELETE action); else
\* the row goes and its folder_tags rows with it (ON DELETE CASCADE).  No
\* foreign key ties notes.folder_id to the table: notes are not looked at.
DeleteFolder(d, id) ==
    LET rows == {r \in d.folders : r.id # id}
    IN  IF FolderParentsStored(rows)
        THEN [ok |-> TRUE,
              db |-> [d EXCEPT !.folders = rows,
                               !.folder_tags = BagKeep(@, {p \in DOMAIN @ : p.folder_id # id})]]
        ELSE [ok |-> FALSE, db |-> d]

delete_folder_permanently(folder_id) ==
    LET r == DeleteFolder(db, folder_id)
        o == OneStatement(IF r.ok THEN Ok(folder_id) ELSE ErrConstraint, r.db)
    IN  /\ db' = o.db
        /\ last' = Call("delete_folder_permanently", folder_id, o.res)
        /\ UNCHANGED <<conn, poisoned, run>>

----------------------------------------------------------------------------
(* init_database *)

\* Connection::open fails for a path that cannot be opened or created.
CanOpen(db_path) == db_path = "notes.db"

\* The file is opened and the schema statements run on the new connection;
\* the connection is stored at the end, under the mutex, which panics when
\* it is poisoned.  When the open fails the command returns the error and
\* the connection held, if any, stays.
init_database(db_path) ==
    /\ db' = IF CanOpen(db_path) THEN CreateAll(db, SchemaObjects) ELSE db
    /\ conn' = IF CanOpen(db_path) /\ ~poisoned THEN "Some" ELSE conn
    /\ last' = Call("init_database", db_path,
                    IF ~CanOpen(db_path) THEN ErrOpen
                    ELSE IF poisoned THEN Panic
                    ELSE Ok(db_path))
    /\ UNCHANGED <<poisoned, run>>

----------------------------------------------------------------------------
(* load_all_folders *)

RowToFolder(row, tagBag) ==
    [ id                  |-> row.id,
      name                |-> row.name,
      parent_id           |-> row.parent_id,
      description         |-> row.description,
      description_visible |-> IntToBool(row.description_visible),
      color               |-> row.color,
      emoji               |-> row.emoji,
      tags                |-> tagBag,
      tags_visible        |-> IntToBool(row.tags_visible),
      is_favorite         |-> IntToBool(row.is_favorite),
      is_expanded         |-> IntToBool(row.is_expanded),
      created_at          |-> row.created_at,
      updated_at          |-> row.updated_at,
      deleted_at          |-> row.deleted_at ]

\* SELECT tag_name FROM folder_tags, grouped under the folder id.
TagsOfFolder(d, id) ==
    LET names == {p.tag_name : p \in {q \in DOMAIN d.folder_tags : q.folder_id = id}}
    IN  [t \in names |-> d.folder_tags[[folder_id |-> id, tag_name |-> t]]]

\* SELECT ... FROM folders, with no ORDER BY: the rows in any order.
OrdersOf(rows) ==
    LET n == Cardinality(rows)
    IN  {s \in [1..n -> rows] : \A i, j \in 1..n : i # j => s[i] # s[j]}

LoadAllFoldersOf(d, s) == [i \in DOMAIN s |-> RowToFolder(s[i], TagsOfFolder(d, s[i].id))]

load_all_folders ==
    \E s \in OrdersOf(db.folders) :
        /\ last' = Call("load_all_folders", <<>>, Entry(Ok(LoadAllFoldersOf(db, s))))
        /\ UNCHANGED <<conn, poisoned, db, run>>

----------------------------------------------------------------------------
(* save_tag, load_all_tags *)

\* The row of table `tags` that save_tag binds for a Tag (?1 .. ?8).
TagRow(tag) ==
    [ name                |-> tag.name,
      description         |-> tag.description,
      description_visible |-> BoolToInt(tag.description_visible),
      is_favorite         |-> BoolToInt(tag.is_favorite),
      color               |-> tag.color,
      created_at          |-> tag.created_at,
      updated_at          |-> tag.updated_at,
      deleted_at          |-> tag.deleted_at ]

RowToTag(row) ==
    [ name                |-> row.name,
      description         |-> row.description,
      description_visible |-> IntToBool(row.description_visible),
      is_favorite         |-> IntToBool(row.is_favorite),
      color               |-> row.color,
      created_at          |-> row.created_at,
      updated_at          |-> row.updated_at,
      deleted_at          |-> row.deleted_at ]

\* A faulty upsert that replaces the stored tag row.
UpdatedTagRowReplacing(r, new) ==
    new

\* ON CONFLICT(name) DO UPDATE SET description = excluded.description, ...:
\* every column but name and created_at is set from the incoming row.
UpdatedTagRow(r, new) ==
    [r EXCEPT !.description         = new.description,
              !.description_visible = new.description_visible,
              !.is_favorite         = new.is_favorite,
              !.color               = new.color,
              !.updated_at          = new.updated_at,
              !.deleted_at          = new.deleted_at]

\* INSERT INTO tags (...) VALUES (...) ON CONFLICT(name) DO UPDATE SET ...
UpsertTag(d, tag) ==
    LET new == TagRow(tag)
        old == {r \in d.tags : r.name = new.name}
    IN  IF old = {} THEN [d EXCEPT !.tags = @ \cup {new}]
        ELSE [d EXCEPT !.tags = (@ \ old) \cup {UpdatedTagRow(r, new) : r \in old}]

save_tag(tag) ==
    LET o == OneStatement(Ok(tag.name), UpsertTag(db, tag))
    IN  /\ db' = o.db
        /\ last' = Call("save_tag", tag, o.res)
        /\ UNCHANGED <<conn, poisoned, run>>

\* SELECT ... FROM tags, with no ORDER BY: the rows in any order.
LoadAllTagsOf(s) == [i \in DOMAIN s |-> RowToTag(s[i])]

load_all_tags ==
    \E s \in OrdersOf(db.tags) :
        /\ last' = Call("load_all_tags", <<>>, Entry(Ok(LoadAllTagsOf(s))))
        /\ UNCHANGED <<conn, poisoned, db, run>>

----------------------------------------------------------------------------
(* cleanup_database *)

\* PRAGMA wal_checkpoint(PASSIVE), its outcome dropped by .ok(): the rows
\* stay as they are.
cleanup_database ==
    /\ last' = Call("cleanup_database", <<>>, Entry(Ok(<<>>)))
    /\ UNCHANGED <<conn, poisoned, db, run>>

----------------------------------------------------------------------------
(* save_ui_state, load_ui_state, load_all_ui_state *)

\* A faulty statement that keeps the stored row (ON CONFLICT DO NOTHING).
UpsertSettingKeeping(d, key, value, now) ==
    IF \E r \in d.settings : r.key = key THEN d
    ELSE [d EXCEPT !.settings = @ \cup {[key |-> key, value |-> value, updated_at |-> now]}]

\* INSERT INTO settings (key, value, updated_at) VALUES (?1, ?2, ?3)
\* ON CONFLICT(key) DO UPDATE SET value = excluded.value,
\* updated_at = excluded.updated_at.
UpsertSetting(d, key, value, now) ==
    [d EXCEPT !.settings =
        {r \in @ : r.key # key} \cup {[key |-> key, value |-> value, updated_at |-> now]}]

\* now is chrono::Utc::now().to_rfc3339().
save_ui_state(key, value, now) ==
    LET o == OneStatement(Ok(key), UpsertSetting(db, key, value, now))
    IN  /\ db' = o.db
        /\ last' = Call("save_ui_state", <<key, value>>, o.res)
        /\ UNCHANGED <<conn, poisoned, run>>

\* SELECT value FROM settings WHERE key = ?1, with .optional(): Ok(None)
\* when no row has the key.
LoadUiStateResult(d, key) ==
    LET rows == {r \in d.settings : r.key = key}
    IN  IF rows = {} THEN Ok(None)
        ELSE Ok(Some((CHOOSE r \in rows : TRUE).value))

load_ui_state(key) ==
    /\ last' = Call("load_ui_state", key, Entry(LoadUiStateResult(db, key)))
    /\ UNCHANGED <<conn, poisoned, db, run>>

\* SQLite's LIKE compares ASCII letters without regard to case.
LikeFold(c) == IF c >= 65 /\ c <= 90 THEN c + 32 ELSE c

\* s LIKE p: % stands for any run of characters, _ for any one character.
RECURSIVE Like(_, _)
Like(s, p) ==
    IF p = <<>> THEN s = <<>>
    ELSE IF Head(p) = 37
         THEN Like(s, Tail(p)) \/ (s # <<>> /\ Like(Tail(s), p))
    ELSE /\ s # <<>>
         /\ Head(p) = 95 \/ LikeFold(Head(p)) = LikeFold(Head(s))
         /\ Like(Tail(s), Tail(p))

\* The pattern 'ui.%'.
UiPattern == <<117, 105, 46, 37>>

\* SELECT key, value FROM settings WHERE key LIKE 'ui.%', collected into a
\* HashMap.
LoadAllUiStateResult(d) ==
    LET rows == {r \in d.settings : Like(r.key, UiPattern)}
    IN  Ok([k \in {r.key : r \in rows} |->
              (CHOOSE r \in rows : r.key = k).value])

load_all_ui_state ==
    /\ last' = Call("load_all_ui_state", <<>>, Entry(LoadAllUiStateResult(db)))
    /\ UNCHANGED <<conn, poisoned, db, run>>

----------------------------------------------------------------------------
(* Commands on concurrent threads: save_note and init_database, one step   *)
(* per acquisition of the mutex and per database statement                 *)

\* Tauri runs each command invocation on a thread of its pool.
Threads == {1, 2}

Idle == [op |-> "idle", pc |-> "idle", arg |-> <<>>]

\* No command in flight; lock is the thread holding the mutex, 0 for none.
NoRun == [lock |-> 0, at |-> [t \in Threads |-> Idle]]

\* The command returns on thread t: its MutexGuard, if it holds one, drops.
Return(t, op, arg, res) ==
    /\ run' = [run EXCEPT !.at[t] = Idle, !.lock = IF @ = t THEN 0 ELSE @]
    /\ last' = Call(op, arg, res)

call_save_note(t, note) ==
    /\ run.at[t] = Idle
    /\ run' = [run EXCEPT !.at[t] = [op |-> "save_note", pc |-> "lock", arg |-> note]]
    /\ UNCHANGED <<conn, poisoned, db, last>>

\* state.0.lock().unwrap() once the mutex is free, then the connection,
\* the debug print and the guard.
save_note_lock(t) ==
    LET note == run.at[t].arg
        res == IF poisoned THEN Panic
               ELSE IF conn = "None" THEN ErrNotInitialized
               ELSE IF SaveNotePrintPanics(note) THEN Panic
               ELSE IF GuardBlocks(db, note) THEN ErrBlocked
               ELSE Ok(<<>>)
    IN  /\ run.at[t].op = "save_note" /\ run.at[t].pc = "lock"
        /\ run.lock = 0
        /\ IF res.kind = "Ok"
           THEN /\ run' = [run EXCEPT !.lock = t, !.at[t].pc = "upsert"]
                /\ UNCHANGED <<poisoned, last>>
           ELSE /\ Return(t, "save_note", note, res)
                /\ poisoned' = (res = Panic)
        /\ UNCHANGED <<conn, db>>

\* The next statement of save_note; the command returns after the last one
\* or at the first that fails.
save_note_statement(t) ==
    LET note == run.at[t].arg
        pc == run.at[t].pc
        r4 == InsertNoteTags(db, note.id, note.tags)
    IN  /\ run.at[t].op = "save_note"
        /\ pc \in {"upsert", "ensure", "clear", "insert"}
        /\ db' = CASE pc = "upsert" -> UpsertNote(db, note)
                   [] pc = "ensure" -> EnsureTags(db, note.tags, note.updated_at)
                   [] pc = "clear"  -> DeleteNoteTags(db, note.id)
                   [] pc = "insert" -> r4.db
        /\ IF pc = "insert"
           THEN Return(t, "save_note", note, IF r4.ok THEN Ok(note.id) ELSE ErrConstraint)
           ELSE /\ run' = [run EXCEPT !.at[t].pc =
                              CASE pc = "upsert" -> "ensure"
                                [] pc = "ensure" -> "clear"
                                [] pc = "clear"  -> "insert"]
                /\ UNCHANGED last
        /\ UNCHANGED <<conn, poisoned>>

call_init_database(t, db_path) ==
    /\ run.at[t] = Idle
    /\ run' = [run EXCEPT !.at[t] = [op |-> "init_database", pc |-> "open", arg |-> db_path]]
    /\ UNCHANGED <<conn, poisoned, db, last>>

\* Connection::open(&db_path), with no lock taken.
init_database_open(t) ==
    /\ run.at[t].op = "init_database" /\ run.at[t].pc = "open"
    /\ IF CanOpen(run.at[t].arg)
       THEN /\ run' = [run EXCEPT !.at[t].pc = "pragma"]
            /\ UNCHANGED last
       ELSE Return(t, "init_database", run.at[t].arg, ErrOpen)
    /\ UNCHANGED <<conn, poisoned, db>>

\* The statements of init_database on the new connection, with no lock
\* taken: PRAGMA foreign_keys = ON, then the schema.
init_database_statement(t) ==
    LET pc == run.at[t].pc
    IN  /\ run.at[t].op = "init_database"
        /\ pc \in {"pragma", "schema"}
        /\ db' = IF pc = "schema" THEN CreateAll(db, SchemaObjects) ELSE db
        /\ run' = [run EXCEPT !.at[t].pc = IF pc = "pragma" THEN "schema" ELSE "store"]
        /\ UNCHANGED <<conn, poisoned, last>>

\* *state.0.lock().unwrap() = Some(conn): the mutex is taken once it is
\* free, the connection stored, and the mutex released.
init_database_store(t) ==
    /\ run.at[t].op = "init_database" /\ run.at[t].pc = "store"
    /\ run.lock = 0
    /\ conn' = IF poisoned THEN conn ELSE "Some"
    /\ Return(t, "init_database", run.at[t].arg,
              IF poisoned THEN Panic ELSE Ok(run.at[t].arg))
    /\ UNCHANGED <<poisoned, db>>

\* Thread t is inside the statements of its command: it has one to run.
Executing(t) ==
    run.at[t].pc \in {"upsert", "ensure", "clear", "insert", "pragma", "schema"}

----------------------------------------------------------------------------
(* The values the commands are called with *)

\* The number of note ids the callers of Spec use.
NumNotes == 2

\* Ids of 21 characters, "nnnnnnnnnnnnnnnnnnnn1", ...; and the id "n1".
NoteId(k) == Rep(20, 110) \o <<48 + k>>
ShortId == <<110, 49>>
NoteIds == {NoteId(k) : k \in 1..NumNotes}

FolderId(k) == Rep(20, 102) \o <<48 + k>>

\* Tag names "A", "B", "C".
TagName(i) == <<64 + i>>
TagNames == {TagName(1), TagName(2), TagName(3)}

\* Timestamps "t1", "t2".
Stamp(v) == <<116, 48 + v>>

\* "hello world", "hello again", " ", and texts of 200, 201 and 202
\* characters, the last with a NUL as its second character.
Hello == <<104, 101, 108, 108, 111, 32, 119, 111, 114, 108, 100>>
HelloAgain == <<104, 101, 108, 108, 111, 32, 97, 103, 97, 105, 110>>
Blank == <<32>>
Text200 == Rep(200, 97)
Text201 == Rep(201, 97)
TextNul == <<97, 0>> \o Rep(200, 98)

\* The three boot-state literals: "", two double quotes, {}.
BootLiterals == {<<>>, <<34, 34>>, <<123, 125>>}

\* A title of 31 bytes whose byte 30 is inside its last character:
\* "a" and fifteen times U+00E9.
TitleSplit == <<97>> \o Rep(15, 233)

\* Two values of every field of a Note but id and tags.  Variant 1 is
\* "Hi" / "hello world", not deleted, in no folder; variant 2 is "Hj" /
\* "hello again", soft-deleted, in folder 1, and differs from variant 1 in
\* every other field too.
Variants == {1, 2}

NoteOf(id, v, tags) ==
    [ id                  |-> id,
      title               |-> <<72, 104 + v>>,
      description         |-> <<100, 48 + v>>,
      description_visible |-> (v = 1),
      emoji               |-> IF v = 1 THEN None ELSE Some(<<9731>>),
      content             |-> IF v = 1 THEN Hello ELSE HelloAgain,
      tags                |-> tags,
      tags_visible        |-> (v # 1),
      is_favorite         |-> (v # 1),
      folder_id           |-> IF v = 1 THEN None ELSE Some(FolderId(1)),
      daily_note_date     |-> IF v = 1 THEN None ELSE Some(Stamp(v)),
      created_at          |-> Stamp(v),
      updated_at          |-> Stamp(v),
      deleted_at          |-> IF v = 1 THEN None ELSE Some(Stamp(v)) ]

FolderOf(id, v, parent, tags) ==
    [ id                  |-> id,
      name                |-> <<70, 48 + v>>,
      parent_id           |-> parent,
      description         |-> <<100, 48 + v>>,
      description_visible |-> (v = 1),
      color               |-> IF v = 1 THEN None ELSE Some(<<114, 101, 100>>),
      emoji               |-> IF v = 1 THEN None ELSE Some(<<9731>>),
      tags                |-> tags,
      tags_visible        |-> (v # 1),
      is_favorite         |-> (v # 1),
      is_expanded         |-> (v # 1),
      created_at          |-> Stamp(v),
      updated_at          |-> Stamp(v),
      deleted_at          |-> IF v = 1 THEN None ELSE Some(Stamp(v)) ]

TagOf(name, v) ==
    [ name                |-> name,
      description         |-> <<100, 48 + v>>,
      description_visible |-> (v = 1),
      is_favorite         |-> (v # 1),
      color               |-> IF v = 1 THEN None ELSE Some(<<114, 101, 100>>),
      created_at          |-> Stamp(v),
      updated_at          |-> Stamp(v),
      deleted_at          |-> IF v = 1 THEN None ELSE Some(Stamp(v)) ]

\* Setting keys "ui.a", "UI.a", "uia", "ui." and "a.ui."; values "v1", "v2".
UiKeys ==
    {<<117, 105, 46, 97>>, <<85, 73, 46, 97>>, <<117, 105, 97>>,
     <<117, 105, 46>>, <<97, 46, 117, 105, 46>>}
UiValue(v) == <<118, 48 + v>>

\* A path that opens and one whose directory does not exist.
DbPaths == {"notes.db", "/nowhere/notes.db"}

\* Queries "hello", "HI", "again" and "".
Queries == {<<104, 101, 108, 108, 111>>, <<72, 73>>, <<97, 103, 97, 105, 110>>, <<>>}

Init ==
    /\ conn = "None"
    /\ poisoned = FALSE
    /\ db = NewFile
    /\ run = NoRun
    /\ last = Call("start", <<>>, Ok(<<>>))

----------------------------------------------------------------------------
(* Spec: callers that save, load, search and delete notes in both variants *)

\* Variant 1 has no tag, variant 2 has tag A.
NoteInputs ==
    {NoteOf(id, v, IF v = 1 THEN <<>> ELSE <<TagName(1)>>) : id \in NoteIds, v \in Variants}

Next ==
    \/ init_database("notes.db")
    \/ \E n \in NoteInputs : save_note(n)
    \/ \E id \in NoteIds : load_note(id)
    \/ load_all_notes
    \/ \E q \in Queries : search_notes(q)
    \/ \E id \in NoteIds : delete_note_permanently(id)
    \/ delete_tag(TagName(1))

Spec == Init /\ [][Next]_vars

----------------------------------------------------------------------------
(* SpecTags: callers that change the tag lists of two notes and a folder *)

TagNoteIds == {NoteId(1), NoteId(2)}

TagNoteInputs ==
    {NoteOf(id, 1, t) :
        id \in TagNoteIds,
        t \in {<<>>, <<TagName(1), TagName(2)>>, <<TagName(2), TagName(3)>>,
               <<TagName(1), TagName(1)>>}}

TagFolderInputs ==
    {FolderOf(FolderId(1), 1, None, t) : t \in {<<>>, <<TagName(1)>>}}

NextTags ==
    \/ init_database("notes.db")
    \/ \E n \in TagNoteInputs : save_note(n)
    \/ \E f \in TagFolderInputs : save_folder(f)
    \/ \E t \in TagNames : delete_tag(t)

SpecTags == Init /\ [][NextTags]_vars

----------------------------------------------------------------------------
(* SpecGuard: callers that save one note with every kind of content, and   *)
(* notes whose id or title the debug print cannot slice                    *)

GuardContents == BootLiterals \cup {Blank, Hello, Text200, Text201, TextNul}

GuardInputs ==
    {[NoteOf(NoteId(1), 1, t) EXCEPT !.content = c] :
        c \in GuardContents, t \in {<<>>, <<TagName(1)>>}}
    \cup {[NoteOf(NoteId(1), 1, <<>>) EXCEPT !.content = c, !.title = TitleSplit] :
            c \in {<<>>, Hello}}
    \cup {[NoteOf(ShortId, 1, <<>>) EXCEPT !.content = c] : c \in {<<>>, Hello}}

NextGuard ==
    \/ \E p \in DbPaths : init_database(p)
    \/ \E n \in GuardInputs : save_note(n)
    \/ load_note(NoteId(1))
    \/ delete_note_permanently(NoteId(1))

SpecGuard == Init /\ [][NextGuard]_vars

----------------------------------------------------------------------------
(* SpecSearch: callers that store one note more than a search returns      *)

SearchNoteCount == SearchLimit + 1

\* Note 1 in both variants at any time; the notes after it in variant 1,
\* each once, in the order of their ids.
SearchInputs(d) ==
    {NoteOf(NoteId(1), v, <<>>) : v \in Variants}
    \cup {NoteOf(NoteId(k), 1, <<TagName(1)>>) :
            k \in {Cardinality(d.notes) + 1} \cap (2..SearchNoteCount)}

\* The callers search a store of up to two notes, and a store of 50 or more.
SearchedSizes == (0..2) \cup (SearchLimit..SearchNoteCount)

NextSearch ==
    \/ init_database("notes.db")
    \/ \E n \in SearchInputs(db) : save_note(n)
    \/ \E q \in Queries :
          /\ Cardinality(db.notes) \in SearchedSizes
          /\ search_notes(q)

SpecSearch == Init /\ [][NextSearch]_vars

----------------------------------------------------------------------------
(* SpecFolders: callers that save notes into folders and delete folders    *)

FolderIds == {FolderId(1), FolderId(2)}

FolderInputs ==
    {FolderOf(id, 1, p, <<>>) : id \in FolderIds, p \in {None, Some(FolderId(1))}}

FolderNoteInputs == {NoteOf(NoteId(1), v, <<>>) : v \in Variants}

NextFolders ==
    \/ init_database("notes.db")
    \/ \E n \in FolderNoteInputs : save_note(n)
    \/ \E f \in FolderInputs : save_folder(f)
    \/ \E id \in FolderIds : delete_folder_permanently(id)
    \/ delete_note_permanently(NoteId(1))

SpecFolders == Init /\ [][NextFolders]_vars

----------------------------------------------------------------------------
(* SpecAll: callers that invoke every command, before and after            *)
(* init_database, with a path that opens and one that does not             *)

NextAll ==
    \/ \E p \in DbPaths : init_database(p)
    \/ \E id \in {NoteId(1), ShortId} : save_note(NoteOf(id, 1, <<TagName(1)>>))
    \/ load_note(NoteId(1))
    \/ load_all_notes
    \/ search_notes(<<104, 101, 108, 108, 111>>)
    \/ save_folder(FolderOf(FolderId(1), 1, None, <<>>))
    \/ load_all_folders
    \/ save_tag(TagOf(TagName(1), 2))
    \/ load_all_tags
    \/ \E t \in {TagName(1), TagName(3)} : delete_tag(t)
    \/ \E id \in {NoteId(1), NoteId(2)} : delete_note_permanently(id)
    \/ delete_folder_permanently(FolderId(1))
    \/ cleanup_database
    \/ save_ui_state(<<117, 105, 46, 97>>, UiValue(1), Stamp(1))
    \/ load_ui_state(<<117, 105, 46, 97>>)
    \/ load_all_ui_state

SpecAll == Init /\ [][NextAll]_vars

----------------------------------------------------------------------------
(* SpecLock: two threads that call save_note and init_database             *)

NextLock ==
    \E t \in Threads :
        \/ \E v \in Variants :
              call_save_note(t, NoteOf(NoteId(1), v, IF v = 1 THEN <<>> ELSE <<TagName(1)>>))
        \/ save_note_lock(t)
        \/ save_note_statement(t)
        \/ \E p \in DbPaths : call_init_database(t, p)
        \/ init_database_open(t)
        \/ init_database_statement(t)
        \/ init_database_store(t)

SpecLock == Init /\ [][NextLock]_vars

----------------------------------------------------------------------------
(* SpecTagMeta: callers that save tags A and B with their fields, and name *)
(* them in the tag lists of a note and a folder                            *)

NextTagMeta ==
    \/ init_database("notes.db")
    \/ \E n \in {TagName(1), TagName(2)}, v \in Variants : save_tag(TagOf(n, v))
    \/ \E t \in {<<>>, <<TagName(1)>>, <<TagName(1), TagName(2)>>} :
          save_note(NoteOf(NoteId(1), 2, t))
    \/ \E t \in {<<>>, <<TagName(2)>>} :
          save_folder(FolderOf(FolderId(1), 1, None, t))
    \/ delete_tag(TagName(1))
    \/ load_all_tags

SpecTagMeta == Init /\ [][NextTagMeta]_vars

----------------------------------------------------------------------------
(* SpecUi: callers that save and load settings under keys that start with  *)
(* "ui.", and under keys that differ from those in case or lack the dot    *)

NextUi ==
    \/ init_database("notes.db")
    \/ \E k \in UiKeys, v \in Variants, now \in {Stamp(1), Stamp(2)} : save_ui_state(k, UiValue(v), now)
    \/ \E k \in UiKeys : load_ui_state(k)
    \/ load_all_ui_state
    \/ cleanup_database

SpecUi == Init /\ [][NextUi]_vars

----------------------------------------------------------------------------
(* SpecScenario: callers that save the note "Hi" / "hello world" with tag  *)
(* "x" under the id "n1" and under ids of 21 characters, list the tags,    *)
(* search "hello", delete the tag and load the note                        *)

ScenarioTag == <<120>>

ScenarioNote(id) == NoteOf(id, 1, <<ScenarioTag>>)

NextScenario ==
    \/ \E p \in DbPaths : init_database(p)
    \/ \E id \in {ShortId, NoteId(1), NoteId(2)} : save_note(ScenarioNote(id))
    \/ load_all_tags
    \/ search_notes(<<104, 101, 108, 108, 111>>)
    \/ delete_tag(ScenarioTag)
    \/ \E id \in {ShortId, NoteId(1), NoteId(2)} : load_note(id)

SpecScenario == Init /\ [][NextScenario]_vars

----------------------------------------------------------------------------
(* SpecFolderSave: callers that save two folders in both variants with tag *)
(* lists, load all folders and delete a folder                             *)

NextFolderSave ==
    \/ init_database("notes.db")
    \/ \E id \in FolderIds, v \in Variants,
          t \in {<<>>, <<TagName(1)>>, <<TagName(1), TagName(2)>>} :
          save_folder(FolderOf(id, v, None, t))
    \/ load_all_folders
    \/ delete_folder_permanently(FolderId(1))

SpecFolderSave == Init /\ [][NextFolderSave]_vars

----------------------------------------------------------------------------
(* SpecPartial: callers that save a note and a folder with tag lists that  *)
(* name a tag twice, save the folder under a parent that is not stored,    *)
(* and delete the tag, the note and the folder                             *)

PartialTagLists ==
    {<<>>, <<TagName(2)>>, <<TagName(1), TagName(1), TagName(2)>>}

NextPartial ==
    \/ init_database("notes.db")
    \/ \E v \in Variants, t \in PartialTagLists : save_note(NoteOf(NoteId(1), v, t))
    \/ \E p \in {None, Some(FolderId(2))}, t \in PartialTagLists :
          save_folder(FolderOf(FolderId(1), 1, p, t))
    \/ \E t \in {TagName(1), TagName(2)} : delete_tag(t)
    \/ delete_note_permanently(NoteId(1))
    \/ delete_folder_permanently(FolderId(1))

SpecPartial == Init /\ [][NextPartial]_vars

----------------------------------------------------------------------------
(* Properties *)

Range(f) == {f[i] : i \in DOMAIN f}

RowOf(d, id) == CHOOSE r \in d.notes : r.id = id

\* The fields of a Note other than its tags.
ScalarFields ==
    {"id", "title", "description", "description_visible", "emoji", "content",
     "tags_visible", "is_favorite", "folder_id", "daily_note_date",
     "created_at", "updated_at", "deleted_at"}

\* The loaded note equals the saved one on the fields F, and its tags are
\* the saved tags as a set.
SameNoteOn(loaded, saved, F) ==
    /\ \A f \in F : loaded[f] = saved[f]
    /\ DOMAIN loaded.tags = Range(saved.tags)

\* The note-tag pairs of the notes other than id.
OtherNoteTags(d, id) == BagKeep(d.note_tags, {p \in DOMAIN d.note_tags : p.note_id # id})

\* C1: when the stored note has content of more than 200 characters, a
\* save_note of that id whose content is one of the three boot-state
\* literals is refused with the blocked-overwrite error and changes nothing
\* that is stored.
C1_GuardRefusesBootOverwrite ==
    [][ ( /\ last'.op = "save_note"
          /\ conn = "Some" /\ ~poisoned
          /\ IsPureBootState(last'.arg.content)
          /\ \E r \in db.notes : r.id = last'.arg.id /\ Len(r.content) > 200 )
        => ( /\ last'.res = ErrBlocked
             /\ db' = db ) ]_vars

\* C2: a save_note whose content is a boot-state literal succeeds when no
\* row has its id or the stored content has at most 200 characters, and a
\* save_note with any other content succeeds whatever is stored.
C2_GuardLetsOtherSavesThrough ==
    [][ ( /\ last'.op = "save_note"
          /\ conn = "Some" /\ ~poisoned
          /\ \/ ~IsPureBootState(last'.arg.content)
             \/ \A r \in db.notes : r.id = last'.arg.id => Len(r.content) <= 200 )
        => last'.res.kind = "Ok" ]_vars

\* C3 as stated: right after a successful save_note of a note whose content
\* is not a boot-state literal, load_note of its id returns a note equal to
\* the saved one in every field, tags as a set.
C3_LoadReturnsSavedNote ==
    ( /\ last.op = "save_note"
      /\ last.res.kind = "Ok"
      /\ ~IsPureBootState(last.arg.content) )
    => LET got == Entry(LoadNoteResult(db, last.arg.id))
       IN  /\ got.kind = "Ok"
           /\ SameNoteOn(got.value, last.arg, ScalarFields)

\* C3 amended: right after a successful save_note of a note whose content is
\* not a boot-state literal, load_note of its id returns a note equal to the
\* saved one in every field but createdAt, tags as a set; createdAt is the
\* one stored before the save when a row had the id, else the saved one.
C3_LoadReturnsSavedNoteButCreatedAt ==
    [][ ( /\ last'.op = "save_note"
          /\ last'.res.kind = "Ok"
          /\ ~IsPureBootState(last'.arg.content) )
        => LET id == last'.arg.id
               got == LoadNoteResult(db', id)
           IN  /\ conn' = "Some" /\ ~poisoned'
               /\ got.kind = "Ok"
               /\ SameNoteOn(got.value, last'.arg, ScalarFields \ {"created_at"})
               /\ got.value.created_at =
                     IF id \in NoteIdsOf(db) THEN RowOf(db, id).created_at
                     ELSE last'.arg.created_at ]_vars

\* A note with tags was saved over a row of another createdAt.
C3_Witness ==
    /\ last.op = "save_note"
    /\ last.res.kind = "Ok"
    /\ ~IsPureBootState(last.arg.content)
    /\ last.arg.tags # <<>>
    /\ LoadNoteResult(db, last.arg.id).kind = "Ok"
    /\ LoadNoteResult(db, last.arg.id).value.created_at # last.arg.created_at

\* C4: a save_note that is accepted for an id that has a row updates the
\* row in place: id and created_at stay, every other column takes the value
\* of the incoming note; and no id ever has two rows.
C4_UpsertKeepsIdAndCreatedAt ==
    [][ /\ \A id \in NoteIdsOf(db') : Cardinality({r \in db'.notes : r.id = id}) = 1
        /\ ( /\ last'.op = "save_note"
             /\ last'.res.kind = "Ok" \/ last'.res = ErrConstraint
             /\ last'.arg.id \in NoteIdsOf(db) )
           => {r \in db'.notes : r.id = last'.arg.id} =
                 {[NoteRow(last'.arg) EXCEPT
                      !.created_at = RowOf(db, last'.arg.id).created_at]} ]_vars

\* An accepted save changed every column of a stored row but id and
\* created_at.
C4_Witness ==
    /\ last.op = "save_note"
    /\ last.res.kind = "Ok"
    /\ \E r \in db.notes :
          /\ r.id = last.arg.id
          /\ r.created_at # last.arg.created_at
          /\ r.updated_at = last.arg.updated_at
          /\ r.title = last.arg.title

\* C5: after a successful save_note the note-tag pairs of the note are
\* exactly the tags of the saved note, one pair each, and the pairs of every
\* other note are as before.
C5_TagsReplacedBySavedSet ==
    [][ ( /\ last'.op = "save_note"
          /\ last'.res.kind = "Ok" )
        => /\ TagsOfNote(db', last'.arg.id) = [t \in Range(last'.arg.tags) |-> 1]
           /\ OtherNoteTags(db', last'.arg.id) = OtherNoteTags(db, last'.arg.id) ]_vars

\* The only note stored was saved with tags B and C after tag A had been
\* created, while no folder is stored.
C5_Witness ==
    /\ last.op = "save_note"
    /\ last.res.kind = "Ok"
    /\ last.arg.tags = <<TagName(2), TagName(3)>>
    /\ NoteIdsOf(db) = {last.arg.id}
    /\ db.folders = {}
    /\ TagName(1) \in TagNamesOf(db)
    /\ DOMAIN TagsOfNote(db, last.arg.id) = {TagName(2), TagName(3)}

\* C6: the full-text index holds exactly one entry per stored note, with
\* the note's id, title and content.
C6_FtsMirrorsNotes ==
    /\ \A r, x \in db.notes : r.id = x.id => r = x
    /\ db.notes_fts = [e \in {FtsEntry(r.id, r.title, r.content) : r \in db.notes} |-> 1]

\* Two notes are indexed, one of them after its title and content changed.
C6_Witness ==
    /\ Cardinality(db.notes) = 2
    /\ \E r \in db.notes :
          /\ r.created_at # r.updated_at
          /\ FtsEntry(r.id, r.title, r.content) \in DOMAIN db.notes_fts
          /\ r.content = HelloAgain
          /\ r.created_at = Stamp(1)

\* The stored notes that are not deleted and hold the token of q in their
\* title or content.
LiveMatches(d, q) ==
    {r \in d.notes :
        /\ r.deleted_at = None
        /\ Tokens(q) \subseteq (Tokens(r.title) \cup Tokens(r.content))}

\* C7: every note search_notes returns is stored, holds the query's token
\* in its title or content as stored, and is not deleted; at most 50 notes
\* are returned; and when at most 50 notes qualify, all of them are.
C7_SearchReturnsLiveMatches ==
    ( /\ last.op = "search_notes"
      /\ last.res.kind = "Ok" )
    => LET got == last.res.value
           live == LiveMatches(db, last.arg)
       IN  /\ \A n \in DOMAIN got : \E r \in live : n = RowToNote(r, n.tags)
           /\ BagSize(got) <= SearchLimit
           /\ Cardinality(live) <= SearchLimit
                 => {n.id : n \in DOMAIN got} = {r.id : r \in live}

\* A search returned 50 notes of the 51 that qualify.
C7_Witness ==
    /\ last.op = "search_notes"
    /\ last.res.kind = "Ok"
    /\ BagSize(last.res.value) = SearchLimit
    /\ Cardinality(LiveMatches(db, last.arg)) > SearchLimit

\* Nothing of the note is left: load_all_notes does not return it,
\* search_notes returns it for no query, and no note-tag pair names it.
Gone(d, id) ==
    /\ \A p \in DOMAIN d.note_tags : p.note_id # id
    /\ \A s \in NotesByUpdatedDesc(d) :
          \A i \in 1..Len(s) : LoadAllNotesOf(d, s)[i].id # id
    /\ \A q \in Queries : \A res \in SearchResults(d, q) :
          res.kind = "Ok" => \A n \in DOMAIN res.value : n.id # id

\* C8: a successful delete_note_permanently leaves nothing of the note, the
\* tags and the other notes with their tags as they were; and nothing of the
\* note comes back until a save_note of its id (a step that leaves the
\* database as it is brings nothing back).
C8_DeletedNoteStaysGone ==
    [][ /\ ( /\ last'.op = "delete_note_permanently"
             /\ last'.res.kind = "Ok" )
           => /\ Gone(db', last'.arg)
              /\ db'.tags = db.tags
              /\ db'.notes = {r \in db.notes : r.id # last'.arg}
              /\ OtherNoteTags(db', last'.arg) = OtherNoteTags(db, last'.arg)
        /\ \/ db' = db
           \/ \A id \in NoteIds :
                 ( /\ Gone(db, id)
                   /\ ~(last'.op = "save_note" /\ last'.arg.id = id) )
                 => Gone(db', id) ]_vars

\* A note was deleted while a tag and another note with that tag are stored.
C8_Witness ==
    /\ last.op = "delete_note_permanently"
    /\ last.res.kind = "Ok"
    /\ last.arg \notin NoteIdsOf(db)
    /\ TagName(1) \in TagNamesOf(db)
    /\ \E r \in db.notes : DOMAIN TagsOfNote(db, r.id) = {TagName(1)}

\* C9: a successful delete_tag removes the tag and every note-tag and
\* folder-tag pair that names it, and nothing else; a note that had only
\* that tag is then loaded with no tags.
C9_DeleteTagCascades ==
    [][ ( /\ last'.op = "delete_tag"
          /\ last'.res.kind = "Ok" )
        => LET name == last'.arg
           IN  /\ db'.tags = {t \in db.tags : t.name # name}
               /\ db'.note_tags =
                     BagKeep(db.note_tags, {p \in DOMAIN db.note_tags : p.tag_name # name})
               /\ db'.folder_tags =
                     BagKeep(db.folder_tags, {p \in DOMAIN db.folder_tags : p.tag_name # name})
               /\ db'.notes = db.notes
               /\ db'.folders = db.folders
               /\ db'.notes_fts = db.notes_fts
               /\ \A id \in NoteIdsOf(db) :
                     DOMAIN TagsOfNote(db, id) = {name}
                        => LoadNoteResult(db', id) = Ok(RowToNote(RowOf(db, id), EmptyBag)) ]_vars

\* Tag A was deleted while tag C is not stored: a note keeps B alone, a
\* note has no tag, and the folder stored has no tag.
C9_Witness ==
    /\ last.op = "delete_tag"
    /\ last.res.kind = "Ok"
    /\ last.arg = TagName(1)
    /\ TagName(3) \notin TagNamesOf(db)
    /\ \E r \in db.notes : DOMAIN TagsOfNote(db, r.id) = {TagName(2)}
    /\ \E r \in db.notes : TagsOfNote(db, r.id) = EmptyBag
    /\ db.folders # {}
    /\ db.folder_tags = EmptyBag

\* C10: the folder a stored note names is a stored folder.
C10_NotesNameStoredFolders ==
    \A r \in db.notes : r.folder_id # None => r.folder_id[1] \in FolderIdsOf(db)

\* C11: while the connection is absent, which it is until an init_database
\* succeeds, every other command returns the not-initialized error and
\* leaves the database, the connection and the mutex as they were.
C11_NotInitializedBeforeInit ==
    [][ ( /\ conn = "None"
          /\ last'.op # "init_database" )
        => ( /\ last'.res = ErrNotInitialized
             /\ db' = db
             /\ conn' = "None"
             /\ ~poisoned' ) ]_vars

\* A note whose id the debug print cannot slice was refused before
\* initialization with the not-initialized error.
C11_Witness ==
    /\ conn = "None"
    /\ last.op = "save_note"
    /\ last.arg.id = ShortId
    /\ last.res = ErrNotInitialized

\* C12: every command, init_database included, holds the mutex from its
\* first database statement to its last, so two commands are never inside
\* their statements at the same time.
C12_StatementsSerialized ==
    /\ \A t \in Threads : Executing(t) => run.lock = t
    /\ \A t, u \in Threads : Executing(t) /\ Executing(u) => t = u

\* C13: after an init_database that failed, every command reports
\* not-initialized until an init_database succeeds, whether or not an
\* earlier one had succeeded.
C13_FailedInitLeavesEngineUnusable ==
    [][ ( /\ last.op = "init_database"
          /\ last.res.kind = "Err"
          /\ ~poisoned
          /\ last'.op # "init_database" )
        => last'.res = ErrNotInitialized ]_vars

\* C14: init_database on the path of an initialized engine succeeds, a
\* connection is held afterwards, and every table holds what it held, so
\* that every load, a function of the tables, returns what it returned.
C14_InitAgainKeepsData ==
    [][ ( /\ last'.op = "init_database"
          /\ CanOpen(last'.arg)
          /\ conn = "Some" /\ ~poisoned )
        => ( /\ last'.res = Ok(last'.arg)
             /\ conn' = "Some"
             /\ db' = db
             /\ LoadNoteResult(db', NoteId(1)) = LoadNoteResult(db, NoteId(1))
             /\ LoadAllUiStateResult(db') = LoadAllUiStateResult(db) ) ]_vars

\* init_database succeeded on a database that holds a note with a tag and
\* its full-text entry, a folder and a setting.
C14_Witness ==
    /\ last.op = "init_database"
    /\ last.res.kind = "Ok"
    /\ db.notes # {} /\ db.folders # {} /\ db.tags # {} /\ db.settings # {}
    /\ db.note_tags # EmptyBag /\ db.notes_fts # EmptyBag

\* C15: save_note and save_folder leave every stored tag row as it is,
\* soft-deleted or not; a row they add is for a name of the saved tag list
\* that had no row, and holds an empty description, the description
\* visible, not favourite, no colour and no deletion time; after a
\* successful save every name of the list has a row.
C15_ImplicitTagOnlyWhenMissing ==
    [][ ( last'.op \in {"save_note", "save_folder"} )
        => ( /\ \A r \in db.tags : r \in db'.tags
             /\ \A r \in db'.tags \ db.tags :
                   /\ r.name \notin TagNamesOf(db)
                   /\ \E i \in DOMAIN last'.arg.tags : last'.arg.tags[i] = r.name
                   /\ RowToTag(r).description = <<>>
                   /\ RowToTag(r).description_visible = TRUE
                   /\ RowToTag(r).is_favorite = FALSE
                   /\ RowToTag(r).color = None
                   /\ RowToTag(r).deleted_at = None
             /\ last'.res.kind = "Ok" =>
                   \A i \in DOMAIN last'.arg.tags : last'.arg.tags[i] \in TagNamesOf(db') ) ]_vars

\* save_note succeeded with the tags A and B: A keeps the soft-deleted row
\* that save_tag stored, B has the row the save created.
C15_Witness ==
    /\ last.op = "save_note"
    /\ last.res.kind = "Ok"
    /\ last.arg.tags = <<TagName(1), TagName(2)>>
    /\ TagRow(TagOf(TagName(1), 2)) \in db.tags
    /\ ImplicitTagRow(TagName(2), last.arg.updated_at) \in db.tags

\* C16: a successful save_tag leaves exactly one row of the name, holding
\* every incoming field, except that the creation time of an existing row
\* stays; the rows of the other names and the associations of notes and
\* folders are unchanged.
C16_SaveTagUpsertsByName ==
    [][ ( /\ last'.op = "save_tag" /\ last'.res.kind = "Ok" )
        => LET new == TagRow(last'.arg)
               old == {r \in db.tags : r.name = new.name}
               row == IF old = {} THEN new
                      ELSE [new EXCEPT !.created_at = (CHOOSE r \in old : TRUE).created_at]
           IN  /\ db'.tags = (db.tags \ old) \cup {row}
               /\ db'.note_tags = db.note_tags
               /\ db'.folder_tags = db.folder_tags ]_vars

\* save_tag succeeded on tag A, which was created earlier at another time
\* and is the tag of the stored note.
C16_Witness ==
    /\ last.op = "save_tag"
    /\ last.res.kind = "Ok"
    /\ last.arg = TagOf(TagName(1), 2)
    /\ [TagRow(TagOf(TagName(1), 2)) EXCEPT !.created_at = Stamp(1)] \in db.tags
    /\ [note_id |-> NoteId(1), tag_name |-> TagName(1)] \in DOMAIN db.note_tags

\* C17: on an initialized engine, delete_note_permanently of an id that
\* no note has, and delete_tag of a name that no tag has, succeed and leave
\* every table as it was.
C17_DeleteMissingIsNoOp ==
    [][ ( /\ conn = "Some" /\ ~poisoned
          /\ \/ last'.op = "delete_note_permanently" /\ last'.arg \notin NoteIdsOf(db)
             \/ last'.op = "delete_tag" /\ last'.arg \notin TagNamesOf(db) )
        => ( /\ last'.res.kind = "Ok"
             /\ db' = db ) ]_vars

\* delete_tag succeeded for tag C, which was never stored, on a database
\* that holds a note with its tag.
C17_Witness ==
    /\ last.op = "delete_tag"
    /\ last.arg = TagName(3)
    /\ last.res.kind = "Ok"
    /\ TagName(3) \notin TagNamesOf(db)
    /\ db.notes # {} /\ db.tags # {} /\ db.note_tags # EmptyBag

\* C18: on an initialized engine load_note fails with the no-rows error
\* exactly when no note has the id; for a stored id, soft-deleted or not,
\* it returns the fields of the row and, once each, exactly the tag names
\* associated with the id.
C18_LoadNoteFoundIffStored ==
    ( /\ last.op = "load_note" /\ conn = "Some" /\ ~poisoned )
    => LET rows == {r \in db.notes : r.id = last.arg}
           names == {p.tag_name : p \in {q \in DOMAIN db.note_tags : q.note_id = last.arg}}
       IN  /\ (last.res = ErrNoRows) <=> (rows = {})
           /\ rows # {} =>
                 \E r \in rows : last.res = Ok(RowToNote(r, [t \in names |-> 1]))

\* load_note returned a soft-deleted note with its tag.
C18_Witness ==
    /\ last.op = "load_note"
    /\ last.res.kind = "Ok"
    /\ last.res.value.deleted_at # None
    /\ last.res.value.tags = [t \in {TagName(1)} |-> 1]

\* C19: after a successful save_ui_state exactly one setting has the key
\* and it holds the saved value, and the setting of every other key is as
\* it was; no other command changes a setting; load_ui_state on an
\* initialized engine succeeds, with the value stored under the key, or
\* with no value when the key was never saved.
C19_UiStateLastValuePerKey ==
    [][ /\ ( last'.op = "save_ui_state" /\ last'.res.kind = "Ok" )
           => ( /\ \E r \in db'.settings :
                     /\ r.key = last'.arg[1]
                     /\ r.value = last'.arg[2]
                     /\ \A q \in db'.settings : q.key = r.key => q = r
                /\ {r \in db'.settings : r.key # last'.arg[1]}
                     = {r \in db.settings : r.key # last'.arg[1]} )
        /\ ( last'.op # "save_ui_state" ) => db'.settings = db.settings
        /\ ( last'.op = "load_ui_state" /\ conn = "Some" /\ ~poisoned )
           => LET vals == {r.value : r \in {q \in db.settings : q.key = last'.arg}}
              IN  \/ vals = {} /\ last'.res = Ok(None)
                  \/ \E v \in vals : vals = {v} /\ last'.res = Ok(Some(v)) ]_vars

\* load_ui_state returned the second value saved under "ui.a" while "UI.a"
\* holds the first value.
C19_Witness ==
    /\ last.op = "load_ui_state"
    /\ last.arg = <<117, 105, 46, 97>>
    /\ last.res = Ok(Some(UiValue(2)))
    /\ \E r \in db.settings :
          r.key = <<117, 105, 46, 97>> /\ r.value = UiValue(2) /\ r.updated_at = Stamp(2)
    /\ \E r \in db.settings : r.key = <<85, 73, 46, 97>> /\ r.value = UiValue(1)

\* C20: load_all_ui_state returns the settings whose key starts with the
\* three characters "ui." in that very case, each with its value, and no
\* other setting.
C20_LoadAllReturnsUiPrefixed ==
    ( /\ last.op = "load_all_ui_state" /\ last.res.kind = "Ok" )
    => LET prefixed == {r \in db.settings :
                          /\ Len(r.key) >= 3
                          /\ SubSeq(r.key, 1, 3) = <<117, 105, 46>>}
       IN  /\ DOMAIN last.res.value = {r.key : r \in prefixed}
           /\ \A r \in prefixed : last.res.value[r.key] = r.value

\* C21: on an initialized engine that no command has broken, save_note of
\* the note with id "n1", title "Hi", content "hello world" and tag "x"
\* succeeds, and so do the commands of the scenario that follow it.
C21_ScenarioSucceeds ==
    [][ ( /\ conn = "Some" /\ ~poisoned
          /\ last'.op = "save_note"
          /\ last'.arg = ScenarioNote(ShortId) )
        => ( /\ last'.res.kind = "Ok"
             /\ ~poisoned' ) ]_vars

\* C22: a successful save_note over a stored soft-deleted note rewrites its
\* row; a successful load_all_notes returns one note for every stored row,
\* soft-deleted or not, with the fields of the row and exactly the tag
\* names associated with its id, never a note before one updated later;
\* and a stored note is gone after a step only when the step is
\* delete_note_permanently of its id.
C22_LoadAllNotesReturnsEveryRow ==
    [][ /\ ( /\ last'.op = "save_note" /\ last'.res.kind = "Ok"
             /\ \E r \in db.notes : r.id = last'.arg.id /\ r.deleted_at # None )
           => \E r \in db'.notes :
                 /\ r.id = last'.arg.id
                 /\ r.title = last'.arg.title
                 /\ r.content = last'.arg.content
                 /\ r.updated_at = last'.arg.updated_at
                 /\ r.deleted_at = last'.arg.deleted_at
        /\ ( last'.op = "load_all_notes" /\ last'.res.kind = "Ok" )
           => LET res == last'.res.value
                  NamesOf(id) == {p.tag_name : p \in {q \in DOMAIN db.note_tags : q.note_id = id}}
              IN  /\ db' = db
                  /\ Len(res) = Cardinality(db.notes)
                  /\ \A r \in db.notes :
                        \E i \in DOMAIN res :
                            /\ res[i] = RowToNote(r, [t \in NamesOf(r.id) |-> 1])
                            /\ \A j \in DOMAIN res : res[j].id = r.id => j = i
                  /\ \A i, j \in DOMAIN res :
                        i < j => ~StrLess(res[i].updated_at, res[j].updated_at)
        /\ \A id \in NoteIdsOf(db) \ NoteIdsOf(db') :
              last'.op = "delete_note_permanently" /\ last'.arg = id ]_vars

\* load_all_notes returned two notes: first the soft-deleted one with its
\* tag, then one that was first saved soft-deleted and saved again since.
C22_Witness ==
    /\ last.op = "load_all_notes"
    /\ last.res.kind = "Ok"
    /\ Len(last.res.value) = 2
    /\ last.res.value[1].deleted_at # None
    /\ last.res.value[1].tags = [t \in {TagName(1)} |-> 1]
    /\ last.res.value[2].deleted_at = None
    /\ last.res.value[2].created_at = Stamp(2)

\* C23: on an initialized engine delete_folder_permanently of a stored
\* folder, the parent of other stored folders or not, succeeds, after
\* which the folder row and the folder-tag associations of its id are gone
\* and the tags are as they were.
C23_DeleteFolderAlwaysSucceeds ==
    [][ ( /\ conn = "Some" /\ ~poisoned
          /\ last'.op = "delete_folder_permanently"
          /\ last'.arg \in FolderIdsOf(db) )
        => ( /\ last'.res.kind = "Ok"
             /\ last'.arg \notin FolderIdsOf(db')
             /\ \A p \in DOMAIN db'.folder_tags : p.folder_id # last'.arg
             /\ db'.tags = db.tags ) ]_vars

\* C24 as stated: load_all_folders right after a successful
\* save_folder(folder) returns exactly one folder with the id, equal to
\* the saved folder in every field, its tags the saved tag set.
C24_LoadReturnsSavedFolder ==
    [][ ( /\ last.op = "save_folder" /\ last.res.kind = "Ok"
          /\ last'.op = "load_all_folders" /\ last'.res.kind = "Ok" )
        => LET res == last'.res.value
           IN  \E i \in DOMAIN res :
                   /\ res[i] = [last.arg EXCEPT !.tags = [t \in {@[k] : k \in DOMAIN @} |-> 1]]
                   /\ \A j \in DOMAIN res : res[j].id = last.arg.id => j = i ]_vars

\* C24, amended: the folder returned equals the saved one in every field
\* but created_at, is_expanded included, with the saved tag set; a
\* successful save_folder leaves one row of the id, whose created_at is the
\* one stored before when a row of the id existed, else the saved one.
C24_LoadReturnsSavedFolderButCreatedAt ==
    [][ /\ ( /\ last.op = "save_folder" /\ last.res.kind = "Ok"
             /\ last'.op = "load_all_folders" /\ last'.res.kind = "Ok" )
           => LET res == last'.res.value
              IN  \E i \in DOMAIN res :
                      /\ res[i] = [last.arg EXCEPT !.tags = [t \in {@[k] : k \in DOMAIN @} |-> 1],
                                                   !.created_at = res[i].created_at]
                      /\ \A j \in DOMAIN res : res[j].id = last.arg.id => j = i
        /\ ( last'.op = "save_folder" /\ last'.res.kind = "Ok" )
           => LET old == {r \in db.folders : r.id = last'.arg.id}
                  new == {r \in db'.folders : r.id = last'.arg.id}
              IN  \E r \in new :
                      /\ new = {r}
                      /\ r.created_at = IF old = {} THEN last'.arg.created_at
                                        ELSE (CHOOSE o \in old : TRUE).created_at ]_vars

\* load_all_folders returned folder 1 as saved the second time, expanded
\* and with tag A, under the creation time of its first save.
C24_Witness ==
    /\ last.op = "load_all_folders"
    /\ last.res.kind = "Ok"
    /\ \E i \in DOMAIN last.res.value :
          last.res.value[i] =
              [FolderOf(FolderId(1), 2, None, <<>>) EXCEPT
                  !.tags = [t \in {TagName(1)} |-> 1], !.created_at = Stamp(1)]

\* C25: a command invoked on an initialized engine whose mutex is usable
\* returns a result or an error, and leaves the mutex usable for the
\* commands after it.
C25_CommandsReturnAndLeaveLockUsable ==
    [][ ( conn = "Some" /\ ~poisoned )
        => ( /\ last'.res.kind \in {"Ok", "Err"}
             /\ ~poisoned' ) ]_vars

\* C26: in every state each note-tag association names a stored note and a
\* stored tag, each folder-tag association names a stored folder and a
\* stored tag, and no association is stored twice.
C26_AssociationsReferenceStoredRows ==
    /\ \A p \in DOMAIN db.note_tags :
          /\ p.note_id \in NoteIdsOf(db)
          /\ p.tag_name \in TagNamesOf(db)
          /\ db.note_tags[p] = 1
    /\ \A p \in DOMAIN db.folder_tags :
          /\ p.folder_id \in FolderIdsOf(db)
          /\ p.tag_name \in TagNamesOf(db)
          /\ db.folder_tags[p] = 1

\* save_note failed at the second insert of tag A: the note has its first
\* association, and the folder still has the one that an earlier save left.
C26_Witness ==
    /\ last.op = "save_note"
    /\ last.res = ErrConstraint
    /\ [note_id |-> NoteId(1), tag_name |-> TagName(1)] \in DOMAIN db.note_tags
    /\ [folder_id |-> FolderId(1), tag_name |-> TagName(2)] \in DOMAIN db.folder_tags

\* C27: save_note and save_folder report success only when every
\* statement took effect: the tag list names no tag twice and the stored
\* associations of the id are exactly its names.  When an association
\* insert fails they return the error, and the store holds what the
\* statements before it did: the row with the saved fields, a tag row for
\* every name of the list, and, the old associations gone, only the
\* associations inserted before the failing one.  When the folder upsert
\* itself fails nothing is changed.
C27_FailedSaveKeepsEarlierStatements ==
    [][ LET arg == last'.arg
            Dup(k) == \E j \in 1..(k - 1) : arg.tags[j] = arg.tags[k]
            First == CHOOSE k \in DOMAIN arg.tags :
                        Dup(k) /\ \A j \in 1..(k - 1) : ~Dup(j)
            NoteNames(d) == {p.tag_name : p \in {q \in DOMAIN d.note_tags : q.note_id = arg.id}}
            FolderNames(d) == {p.tag_name : p \in {q \in DOMAIN d.folder_tags : q.folder_id = arg.id}}
            All == {arg.tags[k] : k \in DOMAIN arg.tags}
        IN  /\ ( last'.op = "save_note" /\ last'.res.kind = "Ok" )
               => ( /\ \A k \in DOMAIN arg.tags : ~Dup(k)
                    /\ NoteNames(db') = All )
            /\ ( last'.op = "save_folder" /\ last'.res.kind = "Ok" )
               => ( /\ \A k \in DOMAIN arg.tags : ~Dup(k)
                    /\ FolderNames(db') = All )
            /\ ( last'.op = "save_note" /\ last'.res = ErrConstraint )
               => ( /\ \E k \in DOMAIN arg.tags : Dup(k)
                    /\ \E r \in db'.notes :
                          /\ r.id = arg.id
                          /\ r.title = arg.title
                          /\ r.deleted_at = arg.deleted_at
                    /\ All \subseteq TagNamesOf(db')
                    /\ NoteNames(db') = {arg.tags[j] : j \in 1..(First - 1)} )
            /\ ( last'.op = "save_folder" /\ last'.res = ErrConstraint )
               => \/ /\ arg.parent_id # None
                     /\ arg.parent_id[1] \notin FolderIdsOf(db) \cup {arg.id}
                     /\ db' = db
                  \/ /\ \E k \in DOMAIN arg.tags : Dup(k)
                     /\ \E r \in db'.folders :
                           /\ r.id = arg.id
                           /\ r.parent_id = arg.parent_id
                     /\ All \subseteq TagNamesOf(db')
                     /\ FolderNames(db') = {arg.tags[j] : j \in 1..(First - 1)} ]_vars

\* save_note of the soft-deleted variant with tags A, A, B failed: the note
\* is stored as saved, tag B has its row, and of the note's associations
\* only the one with A is stored.
C27_Witness ==
    /\ last.op = "save_note"
    /\ last.res = ErrConstraint
    /\ last.arg.tags = <<TagName(1), TagName(1), TagName(2)>>
    /\ \E r \in db.notes : r.id = NoteId(1) /\ r.deleted_at = last.arg.deleted_at /\ r.deleted_at # None
    /\ TagName(2) \in TagNamesOf(db)
    /\ {p \in DOMAIN db.note_tags : p.note_id = NoteId(1)}
          = {[note_id |-> NoteId(1), tag_name |-> TagName(1)]}

====
